---- MODULE Spec2Model ----
(***************************************************************************)
(* BrighterText RAG backend (src/rag_backend.py) and its FastAPI server    *)
(* (src/server.py).                                                        *)
(*                                                                         *)
(* Four specifications share the module:                                   *)
(*   SpecChunk     chunk_text applied to every bounded text / window size  *)
(*   SpecCosine    cosine_similarity applied to every pair of vectors      *)
(*   SpecRetrieve  retrieve_relevant_chunks applied to every bounded KB    *)
(*   Spec          the server process: startup build, then /feedback       *)
(*                 requests run by the event loop                          *)
(*                                                                         *)
(* A Python str is a sequence of one-character strings.                    *)
(***************************************************************************)
EXTENDS Integers, Sequences, FiniteSets, TLC

VARIABLES
    \* ---- SpecChunk: one call of chunk_text
    text,          \* the argument text
    wpc,           \* the argument words_per_chunk
    chunks,        \* the returned list
    cpc,           \* "call" before the call, "done" after it
    \* ---- SpecRetrieve: one call of retrieve_relevant_chunks
    rkb,           \* the argument kb
    rk,            \* the argument k
    rq,            \* the query vector the embedding service returned
    rres,          \* the returned list, as positions of rkb (the returned
                   \* dicts are the very objects of kb)
    rpc,           \* "call", "embedding", "done", "raised"
    rcalls,        \* number of client.embeddings.create calls made
    \* ---- SpecCosine: cosine_similarity called on a pair, both ways round
    va,            \* the first vector
    vb,            \* the second vector
    sim,           \* the values returned for (va, vb) and for (vb, va)
    spc,           \* "call" before the calls, "done" after them
    \* ---- Spec: the server process
    apiKey,        \* whether OPENAI_API_KEY is set to a non-empty value
    exists,        \* the paths for which os.path.exists is true
    docText,       \* what pdf_to_text returns for each path
    phase,         \* "import", "startup", "building", "serving", "failed"
    existing,      \* load_kb: the filtered list
    kb,            \* build_knowledge_base_from_paths: the local list kb
    docIdx,        \* build_knowledge_base_from_paths: position in pdf_paths
    embeddings,    \* build_knowledge_base_from_paths: the local embeddings
    bpc,           \* build: "doc" between documents, "embedding" in the call
    KB,            \* server.py: the global KB
    req,           \* the /feedback requests
    loop,          \* the request whose handler holds the event loop, or 0
    embedCalls,    \* client.embeddings.create calls made by the process
    completionCalls \* client.chat.completions.create calls made

chunkVars  == <<text, wpc, chunks, cpc>>
retrVars   == <<rkb, rk, rq, rres, rpc, rcalls>>
cosVars    == <<va, vb, sim, spc>>
buildVars  == <<existing, kb, docIdx, embeddings, bpc>>
envVars    == <<apiKey, exists, docText>>
serverVars == <<envVars, phase, buildVars, KB, req, loop, embedCalls, completionCalls>>
vars       == <<chunkVars, retrVars, cosVars, serverVars>>

(***************************************************************************)
(* Bounds                                                                  *)
(***************************************************************************)
MaxTextLen == 5      \* longest text handed to chunk_text in SpecChunk
MaxWords   == 3      \* largest words_per_chunk in SpecChunk
MaxKB      == 3      \* longest kb in SpecRetrieve
MaxK       == 3      \* largest k in SpecRetrieve
NumRequests == 2     \* /feedback requests sent to the server in Spec

Min(a, b) == IF a <= b THEN a ELSE b

(***************************************************************************)
(* Strings                                                                 *)
(***************************************************************************)
Whitespace == {" ", "\n"}
Chars      == {"a", "b"} \cup Whitespace

RECURSIVE SeqsUpTo(_, _)
SeqsUpTo(S, n) ==
    IF n = 0 THEN {<<>>}
    ELSE LET shorter == SeqsUpTo(S, n - 1)
         IN  shorter \cup {Append(s, x) : s \in {t \in shorter : Len(t) = n - 1}, x \in S}

\* str.split() with no separator: maximal runs of non-whitespace characters
RECURSIVE SplitAcc(_, _, _)
SplitAcc(s, cur, acc) ==
    IF s = <<>>
    THEN IF cur = <<>> THEN acc ELSE Append(acc, cur)
    ELSE IF Head(s) \in Whitespace
         THEN SplitAcc(Tail(s), <<>>, IF cur = <<>> THEN acc ELSE Append(acc, cur))
         ELSE SplitAcc(Tail(s), Append(cur, Head(s)), acc)

split(s) == SplitAcc(s, <<>>, <<>>)

\* sep.join(words)
RECURSIVE JoinNoSep(_, _)
JoinNoSep(sep, words) ==
    IF words = <<>> THEN <<>>
    ELSE Head(words) \o JoinNoSep(sep, Tail(words))

RECURSIVE join(_, _)
join(sep, words) ==
    IF words = <<>> THEN <<>>
    ELSE IF Len(words) = 1 THEN Head(words)
    ELSE Head(words) \o sep \o join(sep, Tail(words))

\* str.strip(): leading and trailing whitespace removed
RECURSIVE lstrip(_)
lstrip(s) ==
    IF s # <<>> /\ Head(s) \in Whitespace THEN lstrip(Tail(s)) ELSE s

RECURSIVE rstrip(_)
rstrip(s) ==
    IF s # <<>> /\ s[Len(s)] \in Whitespace
    THEN rstrip(SubSeq(s, 1, Len(s) - 1)) ELSE s

strip(s) == rstrip(lstrip(s))

\* words[i:j] for 0 <= i <= j (0-based, j exclusive, clipped to the length)
SliceDropLast(words, i, j) == SubSeq(words, i + 1, Min(j, Len(words)) - 1)

Slice(words, i, j) == SubSeq(words, i + 1, Min(j, Len(words)))

(***************************************************************************)
(* Variables of a specification that another specification leaves alone    *)
(***************************************************************************)
ChunkIdle ==
    text = <<>> /\ wpc = 1 /\ chunks = <<>> /\ cpc = "idle"

RetrIdle ==
    rkb = <<>> /\ rk = 1 /\ rq = <<>> /\ rres = <<>> /\ rpc = "idle" /\ rcalls = 0

CosIdle ==
    va = <<>> /\ vb = <<>> /\ sim = <<>> /\ spc = "idle"

ServerIdle ==
    /\ apiKey = FALSE /\ exists = {} /\ docText = <<>> /\ phase = "idle"
    /\ existing = <<>> /\ kb = <<>> /\ docIdx = 0 /\ embeddings = <<>>
    /\ bpc = "doc" /\ KB = <<>>
    /\ req = <<>> /\ loop = 0 /\ embedCalls = 0 /\ completionCalls = 0

(***************************************************************************)
(* chunk_text                                                              *)
(***************************************************************************)
\* the window one word too long: consecutive windows overlap
RECURSIVE ChunkLoopOverlap(_, _, _, _)
ChunkLoopOverlap(words, words_per_chunk, i, acc) ==
    IF i >= Len(words) THEN acc
    ELSE LET chunk == join(<<" ">>, Slice(words, i, i + words_per_chunk + 1))
         IN  ChunkLoopOverlap(words, words_per_chunk, i + words_per_chunk,
                              IF strip(chunk) # <<>> THEN Append(acc, chunk) ELSE acc)

\* the body of "for i in range(0, len(words), words_per_chunk)"
RECURSIVE ChunkLoop(_, _, _, _)
ChunkLoop(words, words_per_chunk, i, acc) ==
    IF i >= Len(words) THEN acc
    ELSE LET chunk == join(<<" ">>, Slice(words, i, i + words_per_chunk))
         IN  ChunkLoop(words, words_per_chunk, i + words_per_chunk,
                       IF strip(chunk) # <<>> THEN Append(acc, chunk) ELSE acc)

chunk_text(t, words_per_chunk) == ChunkLoop(split(t), words_per_chunk, 0, <<>>)

InitChunk ==
    /\ text \in SeqsUpTo(Chars, MaxTextLen)
    /\ wpc \in 1..MaxWords
    /\ chunks = <<>>
    /\ cpc = "call"
    /\ RetrIdle
    /\ CosIdle
    /\ ServerIdle

ChunkCall ==
    /\ cpc = "call"
    /\ chunks' = chunk_text(text, wpc)
    /\ cpc' = "done"
    /\ UNCHANGED <<text, wpc, retrVars, cosVars, serverVars>>

NextChunk == ChunkCall

SpecChunk == InitChunk /\ [][NextChunk]_vars

\* the token lists of the chunks, concatenated in chunk order
RECURSIVE TokensOf(_)
TokensOf(cs) ==
    IF cs = <<>> THEN <<>> ELSE split(Head(cs)) \o TokensOf(Tail(cs))

\* C1: after chunk_text returns, splitting every chunk on whitespace and
\* concatenating the token lists in chunk order gives exactly text.split()
C1_Lossless ==
    cpc = "done" => TokensOf(chunks) = split(text)

\* C1 witness: a call that returned several chunks, the last one shorter
C1_Witness ==
    /\ cpc = "done"
    /\ Len(chunks) >= 2
    /\ Len(split(chunks[Len(chunks)])) < wpc
    /\ Len(split(chunks[1])) = wpc
    /\ wpc >= 2

\* C2 as claimed: words_per_chunk >= number of tokens gives exactly one
\* chunk holding all tokens
C2_OneChunkAsClaimed ==
    (cpc = "done" /\ wpc >= Len(split(text)))
        => (Len(chunks) = 1 /\ split(chunks[1]) = split(text))

\* C2 amended: the same for a text with at least one token
C2_OneChunk ==
    (cpc = "done" /\ Len(split(text)) >= 1 /\ wpc >= Len(split(text)))
        => (Len(chunks) = 1 /\ split(chunks[1]) = split(text))

\* C2 witness: a text of several tokens returned as one chunk
C2_Witness ==
    /\ cpc = "done"
    /\ Len(split(text)) >= 2
    /\ wpc >= Len(split(text))
    /\ Len(chunks) = 1

\* C17: for a text of n tokens chunk_text returns ceil(n / w) chunks, all
\* but the last of exactly w tokens, the last of the 1..w remaining ones,
\* none empty; for n = 0 it returns the empty list
C17_ChunkCount ==
    cpc = "done" =>
        LET n == Len(split(text))
            c == Len(chunks)
        IN  /\ c = (n + wpc - 1) \div wpc
            /\ n = 0 => chunks = <<>>
            /\ \A i \in 1..c :
                  /\ chunks[i] # <<>> /\ strip(chunks[i]) # <<>>
                  /\ i < c => Len(split(chunks[i])) = wpc
            /\ c > 0 =>
                  /\ Len(split(chunks[c])) = n - (c - 1) * wpc
                  /\ Len(split(chunks[c])) \in 1..wpc

\* C17 witness: three tokens in windows of two: a full chunk and a last
\* chunk of one token
C17_Witness ==
    /\ cpc = "done"
    /\ Len(split(text)) = 3 /\ wpc = 2
    /\ Len(chunks) = 2
    /\ Len(split(chunks[2])) = 1

(***************************************************************************)
(* Vectors and cosine_similarity                                           *)
(*                                                                         *)
(* Embeddings are integer vectors whose Euclidean norm is an integer, so   *)
(* that dot(a,b) / (norm(a) * norm(b)) is an exact rational <<num, den>>   *)
(* with den > 0.  Scores are compared as rationals.                        *)
(***************************************************************************)
Vectors == {<<0, 0>>, <<1, 0>>, <<2, 0>>, <<0, 1>>, <<3, 4>>, <<-1, 0>>}

Dot(a, b) == a[1] * b[1] + a[2] * b[2]

\* np.linalg.norm
Norm(a) == CHOOSE n \in 0..Dot(a, a) : n * n = Dot(a, a)

\* the product of the norms replaced by the square of the first norm
cosine_similarity_first_norm(a, b) ==
    IF Norm(a) = 0 \/ Norm(b) = 0 THEN <<0, 1>>
    ELSE <<Dot(a, b), Norm(a) * Norm(a)>>

\* the zero-norm test left out
cosine_similarity_unguarded(a, b) == <<Dot(a, b), Norm(a) * Norm(b)>>

cosine_similarity(a, b) ==
    IF Norm(a) = 0 \/ Norm(b) = 0 THEN <<0, 1>>
    ELSE <<Dot(a, b), Norm(a) * Norm(b)>>

\* float comparison of two scores
ScoreLess(s, t) == s[1] * t[2] < t[1] * s[2]
ScoreEq(s, t)   == s[1] * t[2] = t[1] * s[2]

\* the vectors cosine_similarity is called on in SpecCosine
CosVectors == Vectors \cup {<<0, 2>>, <<4, 3>>, <<-3, 4>>, <<0, -1>>}

InitCosine ==
    /\ va \in CosVectors
    /\ vb \in CosVectors
    /\ sim = <<>>
    /\ spc = "call"
    /\ ChunkIdle
    /\ RetrIdle
    /\ ServerIdle

\* cosine_similarity(va, vb) and cosine_similarity(vb, va)
CosineCall ==
    /\ spc = "call"
    /\ sim' = <<cosine_similarity(va, vb), cosine_similarity(vb, va)>>
    /\ spc' = "done"
    /\ UNCHANGED <<va, vb, chunkVars, retrVars, serverVars>>

NextCosine == CosineCall

SpecCosine == InitCosine /\ [][NextCosine]_vars

\* C15: cosine_similarity(a, b) and cosine_similarity(b, a) are the same
\* number, zero vectors included
C15_Symmetric ==
    spc = "done" => ScoreEq(sim[1], sim[2])

\* C15 witness: two vectors of different norms that are neither parallel
\* nor orthogonal
C15_Witness ==
    /\ spc = "done"
    /\ Norm(va) # Norm(vb) /\ Norm(va) # 0 /\ Norm(vb) # 0
    /\ Dot(va, vb) # 0
    /\ Dot(va, vb) # Norm(va) * Norm(vb)

\* C16: the value is exactly 0 when either vector has norm zero, and the
\* quotient is never formed with a zero denominator
C16_ZeroNorm ==
    spc = "done" =>
        /\ sim[1][2] # 0 /\ sim[2][2] # 0
        /\ (Norm(va) = 0 \/ Norm(vb) = 0) =>
                (sim[1] = <<0, 1>> /\ sim[2] = <<0, 1>>)

\* C16 witness: a zero vector against a non-zero one
C16_Witness ==
    spc = "done" /\ Norm(va) = 0 /\ Norm(vb) # 0 /\ sim[1] = <<0, 1>>

(***************************************************************************)
(* retrieve_relevant_chunks                                                *)
(***************************************************************************)
\* the loop "for item in kb": scored is a list of (score, item); an item is
\* named by its position in kb
Scored(q_vec, kbArg) ==
    [i \in 1..Len(kbArg) |-> <<cosine_similarity(q_vec, kbArg[i].embedding), i>>]

\* One step of list.sort(key=..., reverse=True): x goes after every element
\* whose key is >= its own, so equal keys keep their order (the sort is
\* stable also under reverse=True).
RECURSIVE InsertDesc(_, _)
InsertDesc(s, x) ==
    IF s = <<>> THEN <<x>>
    ELSE IF ScoreLess(Head(s)[1], x[1]) THEN <<x>> \o s
    ELSE <<Head(s)>> \o InsertDesc(Tail(s), x)

\* s without its last element
Front(s) == SubSeq(s, 1, Len(s) - 1)

\* ascending: reverse=True forgotten
RECURSIVE InsertAsc(_, _)
InsertAsc(s, x) ==
    IF s = <<>> THEN <<x>>
    ELSE IF ScoreLess(x[1], Head(s)[1]) THEN <<x>> \o s
    ELSE <<Head(s)>> \o InsertAsc(Tail(s), x)

RECURSIVE SortAsc(_)
SortAsc(scored) ==
    IF scored = <<>> THEN <<>>
    ELSE InsertAsc(SortAsc(Front(scored)), scored[Len(scored)])

\* descending, but an element goes before the elements of equal key: what
\* sorting ascending and reversing the list gives
RECURSIVE InsertTiesFirst(_, _)
InsertTiesFirst(s, x) ==
    IF s = <<>> THEN <<x>>
    ELSE IF ~ScoreLess(x[1], Head(s)[1]) THEN <<x>> \o s
    ELSE <<Head(s)>> \o InsertTiesFirst(Tail(s), x)

RECURSIVE SortTiesReversed(_)
SortTiesReversed(scored) ==
    IF scored = <<>> THEN <<>>
    ELSE InsertTiesFirst(SortTiesReversed(Front(scored)), scored[Len(scored)])

\* scored.sort(key=lambda x: x[0], reverse=True)
RECURSIVE SortDesc(_)
SortDesc(scored) ==
    IF scored = <<>> THEN <<>>
    ELSE InsertDesc(SortDesc(Front(scored)), scored[Len(scored)])

\* the slice forgotten
TopKAll(scored, k) == scored

\* the last k taken instead of the first k: scored[-k:]
TopKLast(scored, k) ==
    SubSeq(scored, Len(scored) - Min(k, Len(scored)) + 1, Len(scored))

\* scored[:k]
TopK(scored, k) == Slice(scored, 0, k)

\* lines 100-105: the list returned for a query vector
Ranked(q_vec, kbArg, k) ==
    LET top == TopK(SortDesc(Scored(q_vec, kbArg)), k)
    IN  [i \in 1..Len(top) |-> top[i][2]]

Record(e) == [text |-> <<"a">>, source |-> "dyslexia_research.pdf", embedding |-> e]

InitRetrieve ==
    /\ rkb \in {[i \in 1..Len(es) |-> Record(es[i])] : es \in SeqsUpTo(Vectors, MaxKB)}
    /\ rk \in 1..MaxK
    /\ rq = <<>>
    /\ rres = <<>>
    /\ rpc = "call"
    /\ rcalls = 0
    /\ ChunkIdle
    /\ CosIdle
    /\ ServerIdle

\* the call without the empty-kb return
RetrieveCallNoGuard ==
    /\ rpc = "call"
    /\ rres' = rres /\ rpc' = "embedding" /\ rcalls' = rcalls + 1
    /\ UNCHANGED <<rkb, rk, rq, chunkVars, cosVars, serverVars>>

\* lines 96-98: the empty-kb return, else embed_texts([question]) calls the
\* embedding service
RetrieveCall ==
    /\ rpc = "call"
    /\ IF rkb = <<>>
       THEN rres' = <<>> /\ rpc' = "done" /\ rcalls' = rcalls
       ELSE rres' = rres /\ rpc' = "embedding" /\ rcalls' = rcalls + 1
    /\ UNCHANGED <<rkb, rk, rq, chunkVars, cosVars, serverVars>>

\* the embedding service answers with the query's vector: lines 98-105
RetrieveEmbedReturn(v) ==
    /\ rpc = "embedding"
    /\ rq' = v
    /\ rres' = Ranked(v, rkb, rk)
    /\ rpc' = "done"
    /\ UNCHANGED <<rkb, rk, rcalls, chunkVars, cosVars, serverVars>>

\* the embedding service call raises: the exception leaves the function
RetrieveEmbedRaise ==
    /\ rpc = "embedding"
    /\ rpc' = "raised"
    /\ UNCHANGED <<rkb, rk, rq, rres, rcalls, chunkVars, cosVars, serverVars>>

NextRetrieve ==
    \/ RetrieveCall
    \/ \E v \in Vectors : RetrieveEmbedReturn(v)
    \/ RetrieveEmbedRaise

SpecRetrieve == InitRetrieve /\ [][NextRetrieve]_vars

\* the score of record i of the call's kb against the call's query vector
RScore(i) == cosine_similarity(rq, rkb[i].embedding)

\* the position in the returned list of kb position a (0 when not returned)
RPos(a) ==
    IF \E i \in 1..Len(rres) : rres[i] = a
    THEN CHOOSE i \in 1..Len(rres) : rres[i] = a
    ELSE 0

\* C3: the list retrieve_relevant_chunks returns has at most k elements and
\* at most as many as the kb has records
C3_AtMostK ==
    rpc = "done" => (Len(rres) <= rk /\ Len(rres) <= Len(rkb))

\* C3 witness: a kb with more than k records, of which k are returned
C3_Witness ==
    rpc = "done" /\ Len(rkb) > rk /\ Len(rres) = rk

\* C4: in the returned list the similarity to the query never increases
\* from one position to a later one
C4_NonIncreasing ==
    rpc = "done" =>
        \A i, j \in 1..Len(rres) :
            i < j => ~ScoreLess(RScore(rres[i]), RScore(rres[j]))

\* C4 witness: a returned list whose first record scores strictly higher
\* than its second and stood later in the kb
C4_Witness ==
    /\ rpc = "done"
    /\ Len(rres) >= 2
    /\ ScoreLess(RScore(rres[2]), RScore(rres[1]))
    /\ rres[1] > rres[2]

\* C5: of two kb records with equal scores, the later one is returned only
\* if the earlier one is, and then the earlier one comes first
C5_StableTies ==
    rpc = "done" =>
        \A a, b \in 1..Len(rkb) :
            (a < b /\ ScoreEq(RScore(a), RScore(b)) /\ RPos(b) # 0)
                => (RPos(a) # 0 /\ RPos(a) < RPos(b))

\* C5 witness: three records of equal non-zero score, k = 2: the first two
\* are returned in kb order and the third is cut
C5_Witness ==
    /\ rpc = "done"
    /\ Len(rkb) = 3 /\ rk = 2
    /\ RScore(1)[1] > 0
    /\ ScoreEq(RScore(1), RScore(2)) /\ ScoreEq(RScore(2), RScore(3))
    /\ rres = <<1, 2>>

\* C6: with an empty kb retrieve_relevant_chunks returns the empty list and
\* makes no embedding call
C6_EmptyKBNoEmbedding ==
    rkb = <<>> =>
        /\ rcalls = 0
        /\ rpc \in {"call", "done"}
        /\ rpc = "done" => rres = <<>>

\* C6 witness: the call on an empty kb has returned
C6_Witness ==
    rkb = <<>> /\ rpc = "done" /\ rres = <<>> /\ rcalls = 0

\* the kb positions that were returned
Returned == {rres[i] : i \in 1..Len(rres)}

\* C21: for a non-empty kb the result holds min(k, |kb|) records, each a
\* different position of the kb, no record left out scores higher than a
\* returned one, and a record scoring strictly above all others is first
C21_TopK ==
    (rpc = "done" /\ rkb # <<>>) =>
        /\ Len(rres) = Min(rk, Len(rkb))
        /\ Returned \subseteq 1..Len(rkb)
        /\ Cardinality(Returned) = Len(rres)
        /\ \A a \in (1..Len(rkb)) \ Returned : \A b \in Returned :
              ~ScoreLess(RScore(b), RScore(a))
        /\ \A a \in 1..Len(rkb) :
              (\A b \in (1..Len(rkb)) \ {a} : ScoreLess(RScore(b), RScore(a)))
                  => rres[1] = a

\* C21 witness: of three records with three different scores the two best
\* are returned, the best one, last in the kb, first
C21_Witness ==
    /\ rpc = "done"
    /\ Len(rkb) = 3 /\ rk = 2
    /\ ScoreLess(RScore(1), RScore(2)) /\ ScoreLess(RScore(2), RScore(3))
    /\ rres = <<3, 2>>

(***************************************************************************)
(* The server process: import, startup (load_kb), then /feedback requests  *)
(***************************************************************************)
\* words_per_chunk's default, 350 in the source, scaled down so that a
\* document of a few words spans several chunks
DefaultWordsPerChunk == 2

\* k of the call in feedback_on_student_answer
FeedbackK == 5

\* load_kb's pdf_paths: the listed path and the first of the paths the
\* source lists in comments
pdf_paths == <<"dyslexia_research.pdf", "easy_phonics.pdf">>

Range(s) == {s[i] : i \in 1..Len(s)}

\* what pdf_to_text may give for a document: pages joined by "\n\n"; no
\* token, one chunk, two chunks
DocTexts ==
    { <<"\n", "\n">>,
      <<"a">>,
      <<"a", " ", "b", "\n", "\n", "c">> }

pdf_to_text(path) == docText[path]

\* the vectors the embedding service answers with in Spec
ServerVectors == {<<1, 0>>, <<0, 1>>}

\* the texts the completion service answers with
Feedbacks == {"Well done.", "Good try."}

\* context_text: the literal of line 120, or the join of the blocks of the
\* retrieved records
Placeholder == [literal |-> "No PDF knowledge base is loaded.", blocks |-> <<>>]

Joined(blocks) == [literal |-> "", blocks |-> blocks]

Requests == 1..NumRequests

NewRequest ==
    [pc |-> "idle", prompt |-> [question |-> 0, context |-> Joined(<<>>)], embeds |-> 0, completions |-> 0,
     completion |-> "none", response |-> "none"]

Init ==
    /\ apiKey \in BOOLEAN
    /\ exists \in SUBSET Range(pdf_paths)
    /\ docText \in [Range(pdf_paths) -> DocTexts \cup {<<>>}]
    /\ \A p \in Range(pdf_paths) : (p \in exists) <=> (docText[p] \in DocTexts)
    /\ phase = "import"
    /\ existing = <<>> /\ kb = <<>> /\ docIdx = 0 /\ embeddings = <<>>
    /\ bpc = "doc"
    /\ KB = <<>>
    /\ req = [r \in Requests |-> NewRequest]
    /\ loop = 0
    /\ embedCalls = 0 /\ completionCalls = 0
    /\ ChunkIdle
    /\ RetrIdle
    /\ CosIdle

\* the key is not checked
ImportModulesNoCheck ==
    /\ phase = "import"
    /\ phase' = "startup"
    /\ UNCHANGED <<envVars, buildVars, KB, req, loop, embedCalls, completionCalls,
                   chunkVars, retrVars, cosVars>>

\* rag_backend.py 11-24 and server.py 10-34: importing the modules raises
\* without the key; otherwise the clients and the app exist and KB = []
ImportModules ==
    /\ phase = "import"
    /\ phase' = IF apiKey THEN "startup" ELSE "failed"
    /\ UNCHANGED <<envVars, buildVars, KB, req, loop, embedCalls, completionCalls,
                   chunkVars, retrVars, cosVars>>

\* the list is not filtered
ExistingUnfiltered(paths) == paths

\* [p for p in paths if os.path.exists(p)]
RECURSIVE Existing(_)
Existing(paths) ==
    IF paths = <<>> THEN <<>>
    ELSE (IF Head(paths) \in exists THEN <<Head(paths)>> ELSE <<>>)
         \o Existing(Tail(paths))

\* load_kb up to the call of the builder: lines 38-55
LoadKb ==
    /\ phase = "startup"
    /\ existing' = Existing(pdf_paths)
    /\ IF existing' = <<>>
       THEN /\ KB' = <<>>
            /\ phase' = "serving"
            /\ UNCHANGED <<kb, docIdx, embeddings, bpc>>
       ELSE /\ kb' = <<>>
            /\ docIdx' = 1
            /\ bpc' = "doc"
            /\ phase' = "building"
            /\ UNCHANGED <<KB, embeddings>>
    /\ UNCHANGED <<envVars, req, loop, embedCalls, completionCalls, chunkVars, retrVars, cosVars>>

\* the global is assigned after every document
AfterDocPublishing(newkb) ==
    /\ kb' = newkb
    /\ docIdx' = docIdx + 1
    /\ bpc' = "doc"
    /\ KB' = newkb
    /\ phase' = IF docIdx = Len(existing) THEN "serving" ELSE "building"

\* the end of one round of "for path in pdf_paths"; after the last round
\* the builder returns kb and load_kb assigns it to the global (line 55)
AfterDoc(newkb) ==
    /\ kb' = newkb
    /\ docIdx' = docIdx + 1
    /\ bpc' = "doc"
    /\ IF docIdx = Len(existing)
       THEN KB' = newkb /\ phase' = "serving"
       ELSE KB' = KB /\ phase' = "building"

\* embed_texts without its "if not texts: return []": the service is called
\* for every document
BuildDocAlwaysEmbeds ==
    /\ phase = "building" /\ bpc = "doc"
    /\ bpc' = "embedding"
    /\ embedCalls' = embedCalls + 1
    /\ UNCHANGED <<kb, docIdx, embeddings, KB, phase>>
    /\ UNCHANGED <<envVars, existing, req, loop, completionCalls, chunkVars, retrVars, cosVars>>

\* lines 79-81: the text and the chunks of the document; embed_texts makes
\* no call for an empty list, and zip then yields nothing
BuildDoc ==
    /\ phase = "building" /\ bpc = "doc"
    /\ LET path == existing[docIdx]
           raw_text == pdf_to_text(path)
           cs == chunk_text(raw_text, DefaultWordsPerChunk)
       IN  IF cs = <<>>
           THEN /\ embeddings' = <<>>
                /\ AfterDoc(kb)
                /\ UNCHANGED embedCalls
           ELSE /\ bpc' = "embedding"
                /\ embedCalls' = embedCalls + 1
                /\ UNCHANGED <<kb, docIdx, embeddings, KB, phase>>
    /\ UNCHANGED <<envVars, existing, req, loop, completionCalls, chunkVars, retrVars, cosVars>>

\* the vectors paired with the chunks in the opposite order
NewRecordsMisaligned(path, cs, vecs) ==
    [i \in 1..Min(Len(cs), Len(vecs)) |->
        [text |-> cs[i], source |-> path, embedding |-> vecs[Len(vecs) + 1 - i]]]

\* lines 82-89: one record per pair of zip(chunks, embeddings)
NewRecords(path, cs, vecs) ==
    [i \in 1..Min(Len(cs), Len(vecs)) |->
        [text |-> cs[i], source |-> path, embedding |-> vecs[i]]]

\* the embedding service answers with one vector per chunk: lines 81-89
BuildEmbedReturn(vecs) ==
    /\ phase = "building" /\ bpc = "embedding"
    /\ LET path == existing[docIdx]
           cs == chunk_text(pdf_to_text(path), DefaultWordsPerChunk)
       IN  /\ Len(vecs) = Len(cs)
           /\ embeddings' = vecs
           /\ AfterDoc(kb \o NewRecords(path, cs, vecs))
    /\ UNCHANGED <<envVars, existing, req, loop, embedCalls, completionCalls,
                   chunkVars, retrVars, cosVars>>

\* the exception is caught and the build goes on with the next document
BuildEmbedRaiseSkipsDoc ==
    /\ phase = "building" /\ bpc = "embedding"
    /\ embeddings' = <<>>
    /\ AfterDoc(kb)
    /\ UNCHANGED <<envVars, existing, req, loop, embedCalls, completionCalls,
                   chunkVars, retrVars, cosVars>>

\* the embedding service call raises: the exception leaves the builder and
\* load_kb, and the application does not start
BuildEmbedRaise ==
    /\ phase = "building" /\ bpc = "embedding"
    /\ phase' = "failed"
    /\ UNCHANGED <<envVars, buildVars, KB, req, loop, embedCalls, completionCalls,
                   chunkVars, retrVars, cosVars>>

\* the answers the embedding service may give for a document's batch
EmbeddingBatches ==
    UNION {[1..n -> ServerVectors] :
            n \in {Len(chunk_text(t, DefaultWordsPerChunk)) : t \in DocTexts} \ {0}}

(***************************************************************************)
(* /feedback.  feedback_endpoint is a coroutine (async def) that calls the *)
(* synchronous feedback_on_student_answer, whose service calls block: the  *)
(* handler holds the event loop's thread from its start to its response.   *)
(***************************************************************************)
\* a client's POST /feedback reaches the server
Arrive(r) ==
    /\ phase = "serving"
    /\ req[r].pc = "idle"
    /\ req' = [req EXCEPT ![r].pc = "queued"]
    /\ UNCHANGED <<envVars, phase, buildVars, KB, loop, embedCalls, completionCalls,
                   chunkVars, retrVars, cosVars>>

\* the body {feedback: ...} of a request's response is req[r].response,
\* "none" while there is none

\* lines 113-118: the labelled blocks of the retrieved records
ContextBlocks(top) ==
    [i \in 1..Len(top) |->
        [n |-> i, source |-> KB[top[i]].source, text |-> KB[top[i]].text]]

\* lines 122-148: the prompt is built and the completion service is called
IssueCompletion(r, context_text) ==
    /\ req' = [req EXCEPT ![r].pc = "completing",
                          ![r].prompt = [question |-> r, context |-> context_text],
                          ![r].completions = @ + 1]
    /\ completionCalls' = completionCalls + 1

\* retrieval is called whatever the kb; for an empty kb it returns []
\* and the context is the join of no block
StartRequestAlwaysRetrieve(r) ==
    /\ phase = "serving"
    /\ req[r].pc = "queued"
    /\ loop = 0
    /\ loop' = r
    /\ IF KB # <<>>
       THEN /\ req' = [req EXCEPT ![r].pc = "embedding", ![r].embeds = @ + 1]
            /\ embedCalls' = embedCalls + 1
            /\ UNCHANGED completionCalls
       ELSE /\ IssueCompletion(r, Joined(<<>>))
            /\ UNCHANGED embedCalls
    /\ UNCHANGED <<envVars, phase, buildVars, KB, chunkVars, retrVars, cosVars>>

\* the event loop starts the handler of a waiting request: server.py 78-82,
\* rag_backend.py 111-112 and 96-98 (the embedding call for the question),
\* or 119-148 (the placeholder context and the completion call)
StartRequest(r) ==
    /\ phase = "serving"
    /\ req[r].pc = "queued"
    /\ loop = 0
    /\ loop' = r
    /\ IF KB # <<>>
       THEN /\ req' = [req EXCEPT ![r].pc = "embedding", ![r].embeds = @ + 1]
            /\ embedCalls' = embedCalls + 1
            /\ UNCHANGED completionCalls
       ELSE /\ IssueCompletion(r, Placeholder)
            /\ UNCHANGED embedCalls
    /\ UNCHANGED <<envVars, phase, buildVars, KB, chunkVars, retrVars, cosVars>>

\* the kb itself is sorted by score, not the list scored
EmbedReturnSortsKB(r, v) ==
    /\ req[r].pc = "embedding"
    /\ KB' = LET order == Ranked(v, KB, Len(KB)) IN [i \in 1..Len(KB) |-> KB[order[i]]]
    /\ IssueCompletion(r, Joined(ContextBlocks(Ranked(v, KB, FeedbackK))))
    /\ UNCHANGED <<envVars, phase, buildVars, loop, embedCalls, chunkVars, retrVars, cosVars>>

\* the embedding service answers the question's vector: rag_backend.py
\* 98-105 and 113-148
EmbedReturn(r, v) ==
    /\ req[r].pc = "embedding"
    /\ IssueCompletion(r, Joined(ContextBlocks(Ranked(v, KB, FeedbackK))))
    /\ UNCHANGED <<envVars, phase, buildVars, KB, loop, embedCalls, chunkVars, retrVars, cosVars>>

\* the failure is caught and the request goes on without context
EmbedRaiseFallsBack(r) ==
    /\ req[r].pc = "embedding"
    /\ IssueCompletion(r, Placeholder)
    /\ UNCHANGED <<envVars, phase, buildVars, KB, loop, embedCalls, chunkVars, retrVars, cosVars>>

\* the embedding call raises: the exception leaves the handler and the
\* framework answers with an error
EmbedRaise(r) ==
    /\ req[r].pc = "embedding"
    /\ req' = [req EXCEPT ![r].pc = "error"]
    /\ loop' = 0
    /\ UNCHANGED <<envVars, phase, buildVars, KB, embedCalls, completionCalls,
                   chunkVars, retrVars, cosVars>>

\* the completion service answers: rag_backend.py 150, server.py 83
CompletionReturn(r, t) ==
    /\ req[r].pc = "completing"
    /\ req' = [req EXCEPT ![r].pc = "ok",
                          ![r].completion = t,
                          ![r].response = t]
    /\ loop' = 0
    /\ UNCHANGED <<envVars, phase, buildVars, KB, embedCalls, completionCalls,
                   chunkVars, retrVars, cosVars>>

\* the failure is caught and a canned text is answered
CompletionRaiseFallback(r) ==
    /\ req[r].pc = "completing"
    /\ req' = [req EXCEPT ![r].pc = "ok",
                          ![r].completion = "raised",
                          ![r].response = "Sorry, try again."]
    /\ loop' = 0
    /\ UNCHANGED <<envVars, phase, buildVars, KB, embedCalls, completionCalls,
                   chunkVars, retrVars, cosVars>>

\* the completion call raises: nothing catches the exception, and the
\* framework answers with an error
CompletionRaise(r) ==
    /\ req[r].pc = "completing"
    /\ req' = [req EXCEPT ![r].pc = "error", ![r].completion = "raised"]
    /\ loop' = 0
    /\ UNCHANGED <<envVars, phase, buildVars, KB, embedCalls, completionCalls,
                   chunkVars, retrVars, cosVars>>

Next ==
    \/ ImportModules
    \/ LoadKb
    \/ BuildDoc
    \/ \E vecs \in EmbeddingBatches : BuildEmbedReturn(vecs)
    \/ BuildEmbedRaise
    \/ \E r \in Requests : Arrive(r)
    \/ \E r \in Requests : StartRequest(r)
    \/ \E r \in Requests, v \in ServerVectors : EmbedReturn(r, v)
    \/ \E r \in Requests : EmbedRaise(r)
    \/ \E r \in Requests, t \in Feedbacks : CompletionReturn(r, t)
    \/ \E r \in Requests : CompletionRaise(r)

Spec == Init /\ [][Next]_vars

\* a request whose handler has started
Started(r) == req[r].pc \in {"embedding", "completing", "ok", "error"}

\* C7: with an empty KB a started feedback request has made no embedding
\* call, has submitted one prompt holding the placeholder context to the
\* completion service, answers with the text that service returned, and
\* fails only if the completion call itself raised
C7_EmptyKBFeedback ==
    \A r \in Requests :
        (KB = <<>> /\ Started(r)) =>
            /\ req[r].pc # "embedding"
            /\ req[r].embeds = 0
            /\ embedCalls = 0
            /\ req[r].completions = 1
            /\ req[r].prompt = [question |-> r, context |-> Placeholder]
            /\ req[r].pc = "ok" =>
                    /\ req[r].completion \in Feedbacks
                    /\ req[r].response = req[r].completion
            /\ req[r].pc = "error" => req[r].completion = "raised"

\* C7 witness: a request served with the empty KB got the completion
\* service's text back
C7_Witness ==
    \E r \in Requests :
        /\ KB = <<>> /\ phase = "serving"
        /\ req[r].pc = "ok"
        /\ req[r].prompt.context = Placeholder
        /\ req[r].response # "none"

\* C8: a request whose completion call raised ends as an error without any
\* {feedback: ...} body, and a success response carries exactly the text
\* the completion service returned
C8_NoFabricatedFeedback ==
    \A r \in Requests :
        /\ req[r].completion = "raised" =>
                (req[r].pc = "error" /\ req[r].response = "none")
        /\ req[r].response # "none" =>
                /\ req[r].pc = "ok"
                /\ req[r].completion \in Feedbacks
                /\ req[r].response = req[r].completion
        /\ req[r].pc = "ok" => req[r].response # "none"

\* C8 witness: one request failed in the completion call, another one
\* succeeded
C8_Witness ==
    \E r1, r2 \in Requests :
        /\ req[r1].completion = "raised" /\ req[r1].pc = "error"
        /\ req[r2].pc = "ok" /\ req[r2].response # "none"

\* a request waiting for the answer of an external service
Suspended(r) == req[r].pc \in {"embedding", "completing"}

\* C9: a request suspended in an external call does not block another one:
\* whenever a request waits for the embedding or completion service and
\* another request has reached the server, the other request's handler can
\* start (and issue its own external call)
C9_SuspensionDoesNotBlock ==
    \A r1, r2 \in Requests :
        (r1 # r2 /\ Suspended(r1) /\ req[r2].pc = "queued")
            => ENABLED StartRequest(r2)

\* the records the builder makes for the documents of paths, without their
\* embeddings
RECURSIVE ExpectedChunks(_)
ExpectedChunks(paths) ==
    IF paths = <<>> THEN <<>>
    ELSE LET cs == chunk_text(docText[Head(paths)], DefaultWordsPerChunk)
         IN  [i \in 1..Len(cs) |-> [text |-> cs[i], source |-> Head(paths)]]
             \o ExpectedChunks(Tail(paths))

\* C10: the global KB is empty, or the build has finished and the KB holds
\* the records of every chunk of every existing document, in order
C10_KBEmptyOrComplete ==
    KB # <<>> =>
        /\ phase = "serving"
        /\ KB = kb
        /\ [i \in 1..Len(KB) |-> [text |-> KB[i].text, source |-> KB[i].source]]
              = ExpectedChunks(Existing(pdf_paths))
        /\ \A i \in 1..Len(KB) : KB[i].embedding \in ServerVectors

\* C10 witness: a request runs against a KB built from two documents, the
\* first of one chunk and the second of two
C10_Witness ==
    /\ phase = "serving"
    /\ Len(KB) = 3
    /\ KB[1].source # KB[3].source
    /\ \E r \in Requests : req[r].pc = "embedding"

\* C11: once the startup build is over, no step of any feedback request
\* changes the KB (its length, the order and the fields of its records)
C11_KBReadOnly ==
    [][phase = "serving" => KB' = KB]_vars

\* C11 witness: on a KB of several records one request has succeeded and
\* another has failed
C11_Witness ==
    /\ phase = "serving" /\ Len(KB) >= 2
    /\ KB[1].embedding # KB[2].embedding
    /\ \E r1, r2 \in Requests : req[r1].pc = "ok" /\ req[r2].pc = "error"

\* the chunks of the document the builder is at
CurrentChunks == chunk_text(pdf_to_text(existing[docIdx]), DefaultWordsPerChunk)

\* C12: a build whose embedding call raises is aborted as a whole: the
\* step out of a pending call either appends all records of the document
\* or ends the startup with the KB empty and the records so far dropped;
\* after the failure nothing moves and no request is served
C12_BuildAbortsWhole ==
    /\ []((phase = "failed" /\ apiKey) =>
            (KB = <<>> /\ \A r \in Requests : req[r].pc = "idle"))
    /\ [][(phase = "building" /\ bpc = "embedding") =>
            \/ /\ phase' = "failed"
               /\ KB' = <<>>
               /\ UNCHANGED <<buildVars, embedCalls>>
            \/ /\ phase' # "failed"
               /\ Len(kb') = Len(kb) + Len(CurrentChunks)]_vars
    /\ [][phase = "failed" => UNCHANGED <<phase, KB, buildVars, embedCalls>>]_vars

\* C12 witness: the first document was embedded, the call for the second
\* one raised
C12_Witness ==
    /\ phase = "failed" /\ apiKey
    /\ docIdx = 2 /\ Len(kb) >= 1
    /\ KB = <<>>

\* C13: the builder only sees paths that exist; if none exists the builder
\* is not entered, no embedding call is made, the KB is the empty list,
\* the startup ends well and requests are served with the placeholder
C13_NoDocuments ==
    /\ \A i \in 1..Len(existing) : existing[i] \in exists
    /\ \A i \in 1..Len(kb) : kb[i].source \in exists
    /\ (apiKey /\ exists = {} /\ phase \notin {"import", "startup"}) =>
            /\ phase = "serving"
            /\ existing = <<>> /\ docIdx = 0 /\ kb = <<>>
            /\ KB = <<>>
            /\ embedCalls = 0
            /\ \A r \in Requests :
                  /\ req[r].pc = "idle" => ENABLED Arrive(r)
                  /\ Started(r) => req[r].prompt.context = Placeholder

\* C13 witness: no document exists and a request was answered
C13_Witness ==
    /\ exists = {} /\ phase = "serving" /\ KB = <<>>
    /\ \E r \in Requests : req[r].pc = "ok"

\* C14: without the key the process never gets past the import: no
\* startup, no build, no service call, and no request is accepted
C14_NoKeyNoServer ==
    ~apiKey =>
        /\ phase \in {"import", "failed"}
        /\ existing = <<>> /\ kb = <<>> /\ KB = <<>>
        /\ embedCalls = 0 /\ completionCalls = 0
        /\ \A r \in Requests : req[r].pc = "idle" /\ ~ENABLED Arrive(r)

\* C14 witness: the import failed although a document exists
C14_Witness ==
    ~apiKey /\ phase = "failed" /\ exists # {}

\* a list of records without the embeddings
TextAndSource(records) ==
    [i \in 1..Len(records) |-> [text |-> records[i].text, source |-> records[i].source]]

\* the builder has been entered
InBuilder == docIdx >= 1

\* C18: the builder's list is, document after document in input order, one
\* record per chunk in chunk order, with the document's path as source and
\* the i-th vector of the document's batch as the i-th record's embedding;
\* a finished build makes exactly that list the KB, whose length is the
\* total number of chunks
C18_BuildResult ==
    /\ InBuilder => TextAndSource(kb) = ExpectedChunks(SubSeq(existing, 1, docIdx - 1))
    /\ (InBuilder /\ bpc = "doc" /\ docIdx >= 2) =>
          LET path == existing[docIdx - 1]
              cs == chunk_text(pdf_to_text(path), DefaultWordsPerChunk)
              base == Len(kb) - Len(cs)
          IN  /\ Len(embeddings) = Len(cs)
              /\ base >= 0
              /\ \A i \in 1..Len(cs) :
                    kb[base + i] = [text |-> cs[i], source |-> path,
                                    embedding |-> embeddings[i]]
    /\ (InBuilder /\ phase = "serving") =>
          /\ docIdx = Len(existing) + 1
          /\ KB = kb
          /\ Len(KB) = Len(ExpectedChunks(existing))

\* C18 witness: a KB of two documents with two chunks each, the chunks of
\* the second one with different vectors
C18_Witness ==
    /\ phase = "serving"
    /\ Len(existing) = 2 /\ Len(KB) = 4
    /\ KB[2].source # KB[3].source
    /\ KB[3].embedding # KB[4].embedding

\* the chunks of the i-th document handed to the builder
ChunksOfDoc(i) == chunk_text(pdf_to_text(existing[i]), DefaultWordsPerChunk)

\* how many of the first n documents have at least one chunk
NonEmptyDocs(n) == Cardinality({i \in 1..n : ChunksOfDoc(i) # <<>>})

\* the embedding calls made by the first n requests
RECURSIVE RequestEmbeds(_)
RequestEmbeds(n) == IF n = 0 THEN 0 ELSE req[n].embeds + RequestEmbeds(n - 1)

\* C19: the embedding service is never called for an empty list: in a
\* build a document without chunks causes no call and no record and the
\* build goes on, a document with chunks causes exactly one call
C19_NoEmptyEmbedding ==
    InBuilder =>
        /\ bpc = "embedding" => ChunksOfDoc(docIdx) # <<>>
        /\ phase \in {"building", "failed"} =>
              embedCalls = NonEmptyDocs(docIdx - 1)
                           + (IF bpc = "embedding" THEN 1 ELSE 0)
        /\ phase = "serving" =>
              embedCalls = NonEmptyDocs(Len(existing)) + RequestEmbeds(NumRequests)
        /\ (bpc = "doc" /\ docIdx >= 2 /\ ChunksOfDoc(docIdx - 1) = <<>>) =>
              embeddings = <<>>
        /\ Len(kb) = Len(ExpectedChunks(SubSeq(existing, 1, docIdx - 1)))
        /\ (phase = "building" /\ bpc = "doc") => ENABLED BuildDoc

\* C19 witness: the first document has no chunk, the second one has, and
\* the build made one embedding call
C19_Witness ==
    /\ phase = "serving" /\ Len(existing) = 2
    /\ ChunksOfDoc(1) = <<>> /\ ChunksOfDoc(2) # <<>>
    /\ Len(KB) = Len(ChunksOfDoc(2))
    /\ embedCalls = 1

\* C20: a request on a non-empty KB makes exactly one embedding call, and
\* calls the completion service at most once and only when that call has
\* returned (the prompt then holds the retrieved blocks); if the embedding
\* call raises, the request ends as an error without a completion call,
\* and the KB and the other requests are left as they were
C20_CallOrder ==
    /\ [](\A r \in Requests :
            (KB # <<>> /\ Started(r)) =>
                /\ req[r].embeds = 1
                /\ req[r].completions <= 1
                /\ req[r].pc = "embedding" => req[r].completions = 0
                /\ req[r].pc \in {"completing", "ok"} => req[r].completions = 1
                /\ req[r].completions = 1 =>
                      /\ req[r].prompt.context.literal = ""
                      /\ Len(req[r].prompt.context.blocks) = Min(FeedbackK, Len(KB))
                /\ (req[r].pc = "error" /\ req[r].completion # "raised") =>
                      (req[r].completions = 0 /\ req[r].response = "none"))
    /\ [][\A r \in Requests :
            /\ (KB # <<>> /\ req'[r].completions > req[r].completions) =>
                  req[r].pc = "embedding"
            /\ (req[r].pc = "embedding" /\ req'[r].pc = "error") =>
                  /\ KB' = KB /\ phase' = phase
                  /\ completionCalls' = completionCalls
                  /\ \A r2 \in Requests \ {r} : req'[r2] = req[r2]]_vars

\* C20 witness: on a non-empty KB one request failed in its embedding call
\* and another one, started after it, was answered
C20_Witness ==
    /\ KB # <<>>
    /\ \E r1, r2 \in Requests :
          /\ req[r1].pc = "error" /\ req[r1].embeds = 1 /\ req[r1].completions = 0
          /\ req[r2].pc = "ok" /\ req[r2].embeds = 1 /\ req[r2].completions = 1

====
